---- MODULE Spec2Model ----
(***************************************************************************)
(* Model of the sentiment refinement pipeline: utils/utils.py              *)
(* (match_keywords), model_inference.py (load_keywords, adjust_sentiment,  *)
(* analyze_sentiment, analyze_batch) and the session state of              *)
(* app_streamlit.py.                                                       *)
(*                                                                         *)
(* A Python str is a sequence of one-character strings.  A confidence      *)
(* score is an integer number of ten-thousandths (9000 is 0.9).            *)
(***************************************************************************)
EXTENDS Integers, Sequences, FiniteSets, TLC

VARIABLES
    pc,                 \* "ready" before the call under study, "done" after
    op,                 \* the function the pure-function specifications call
    args,               \* its arguments
    ret,                \* what it returned (or raised)
    POSITIVE_KEYWORDS,  \* module globals of model_inference.py
    NEGATIVE_KEYWORDS,
    NEUTRAL_KEYWORDS,
    comments,           \* st.session_state["comments"]
    results             \* st.session_state["results"]; <<>> wrapped in a record

vars == <<pc, op, args, ret, POSITIVE_KEYWORDS, NEGATIVE_KEYWORDS,
          NEUTRAL_KEYWORDS, comments, results>>

----------------------------------------------------------------------------
(* Characters and Python str methods                                       *)

UpperChars == <<"A","B","C","D","E","F","G","H","I","J","K","L","M",
                "N","O","P","Q","R","S","T","U","V","W","X","Y","Z">>

LowerChars == <<"a","b","c","d","e","f","g","h","i","j","k","l","m",
                "n","o","p","q","r","s","t","u","v","w","x","y","z">>

Digits == {"0","1","2","3","4","5","6","7","8","9"}

Range(s) == {s[i] : i \in DOMAIN s}

\* str.isspace() characters of the modelled alphabet
IsSpace(c) == c \in {" ", "\t", "\n", "\r"}

\* the regex class \w on str patterns: letters, digits, underscore
WordChars == Range(UpperChars) \cup Range(LowerChars) \cup Digits \cup {"_"}

IsWord(c) == c \in WordChars

\* the lower-case letter of each upper-case letter
LowerOf ==
    [c \in Range(UpperChars) |->
        LowerChars[CHOOSE i \in DOMAIN UpperChars : UpperChars[i] = c]]

LowerChar(c) == IF c \in DOMAIN LowerOf THEN LowerOf[c] ELSE c

\* str.lower()
Lower(s) == [i \in DOMAIN s |-> LowerChar(s[i])]

RECURSIVE LStrip(_)
LStrip(s) == IF s # <<>> /\ IsSpace(Head(s)) THEN LStrip(Tail(s)) ELSE s

RECURSIVE RStrip(_)
RStrip(s) ==
    IF s # <<>> /\ IsSpace(s[Len(s)]) THEN RStrip(SubSeq(s, 1, Len(s) - 1)) ELSE s

\* str.strip()
Strip(s) == RStrip(LStrip(s))

----------------------------------------------------------------------------
(* utils/utils.py: match_keywords                                          *)

\* the regex assertion \b at offset p (0..Len(t)) of t: exactly one of the
\* characters before and after the offset is a word character
WordBoundary(t, p) ==
    LET before == p >= 1 /\ IsWord(t[p])
        after  == p < Len(t) /\ IsWord(t[p + 1])
    IN  before # after

\* the pattern \b + re.escape(lit) + \b matches t starting at offset p
MatchAt(t, lit, p) ==
    /\ p + Len(lit) <= Len(t)
    /\ WordBoundary(t, p)
    /\ SubSeq(t, p + 1, p + Len(lit)) = lit
    /\ WordBoundary(t, p + Len(lit))

\* len(re.findall(pattern, t)): leftmost non-overlapping matches from offset p;
\* after an empty match the scan moves on by one character
RECURSIVE FindAllCount(_, _, _)
FindAllCount(t, lit, p) ==
    IF p > Len(t) THEN 0
    ELSE IF MatchAt(t, lit, p)
         THEN 1 + FindAllCount(t, lit, IF Len(lit) = 0 THEN p + 1 ELSE p + Len(lit))
         ELSE FindAllCount(t, lit, p + 1)

RECURSIVE CountLoop(_, _, _)
CountLoop(text_lower, keywords, i) ==
    IF i > Len(keywords) THEN 0
    ELSE FindAllCount(text_lower, Lower(keywords[i]), 0)
         + CountLoop(text_lower, keywords, i + 1)

match_keywords(text, keywords) == CountLoop(Lower(text), keywords, 1)

----------------------------------------------------------------------------
(* Inputs of the specification of match_keywords                           *)

MaxTextLen == 4

MatchAlphabet == {"a", "A", "+", " "}

RECURSIVE SeqsUpTo(_, _)
SeqsUpTo(S, n) ==
    IF n = 0 THEN {<<>>}
    ELSE LET shorter == SeqsUpTo(S, n - 1)
         IN  shorter \cup {Append(s, c) : s \in shorter, c \in S}

MatchTexts == SeqsUpTo(MatchAlphabet, MaxTextLen)

MatchKeywordLists ==
    { <<>>,
      << <<"a">> >>,
      << <<"A">> >>,
      << <<"a">>, <<"a">> >>,
      << <<"a", "a">> >>,
      << <<"a", "+">> >>,
      << <<"+", "a">> >>,
      << <<"a", " ", "a">> >>,
      << <<"a">>, <<"a", "+">> >> }

NoRet == [kind |-> "none"]

InitMatch ==
    /\ pc = "ready"
    /\ op = "match_keywords"
    /\ args \in [text : MatchTexts, keywords : MatchKeywordLists]
    /\ ret = NoRet
    /\ POSITIVE_KEYWORDS = <<>>
    /\ NEGATIVE_KEYWORDS = <<>>
    /\ NEUTRAL_KEYWORDS = <<>>
    /\ comments = <<>>
    /\ results = [present |-> FALSE, rows |-> <<>>]

CallMatchKeywords ==
    /\ pc = "ready"
    /\ op = "match_keywords"
    /\ ret' = [kind |-> "value", value |-> match_keywords(args.text, args.keywords)]
    /\ pc' = "done"
    /\ UNCHANGED <<op, args, POSITIVE_KEYWORDS, NEGATIVE_KEYWORDS,
                   NEUTRAL_KEYWORDS, comments, results>>

SpecMatch == InitMatch /\ [][CallMatchKeywords]_vars

----------------------------------------------------------------------------
(* match_keywords: the count the documentation describes                   *)

\* the occurrences of k in T, compared without case, that have a non-word
\* character or an end of the text on each side
WholeWordOccurrences(T, k) ==
    Cardinality({ p \in 0..(Len(T) - Len(k)) :
        /\ SubSeq(Lower(T), p + 1, p + Len(k)) = Lower(k)
        /\ (p = 0 \/ ~IsWord(T[p]))
        /\ (p + Len(k) = Len(T) \/ ~IsWord(T[p + Len(k) + 1])) })

RECURSIVE SumWholeWord(_, _, _)
SumWholeWord(T, L, i) ==
    IF i > Len(L) THEN 0
    ELSE WholeWordOccurrences(T, L[i]) + SumWholeWord(T, L, i + 1)

MatchDone == pc = "done" /\ op = "match_keywords"

\* C7: match_keywords(T, L) is a non-negative integer, the sum over the
\* entries of L (repetitions included) of the case-insensitive occurrences of
\* the entry in T that are bounded on both sides by non-word characters or
\* the ends of the text; it is 0 when L is empty; "cat" is not counted inside
\* "category" and is counted once in "the cat sat" and once in "CAT".
C7_MatchCountsWholeWordOccurrences ==
    /\ match_keywords(<<"c","a","t","e","g","o","r","y">>, << <<"c","a","t">> >>) = 0
    /\ match_keywords(<<"t","h","e"," ","c","a","t"," ","s","a","t">>,
                      << <<"c","a","t">> >>) = 1
    /\ match_keywords(<<"C","A","T">>, << <<"c","a","t">> >>) = 1
    /\ MatchDone =>
        /\ ret.value \in Nat
        /\ (args.keywords = <<>> => ret.value = 0)
        /\ ret.value = SumWholeWord(args.text, args.keywords, 1)

\* the same statement for keyword lists whose entries consist of word
\* characters only (the part of C7 the code satisfies)
MatchWordOnlyKeywords ==
    (MatchDone /\ \A i \in DOMAIN args.keywords :
                    \A j \in DOMAIN args.keywords[i] : IsWord(args.keywords[i][j]))
        => /\ ret.value \in Nat
           /\ (args.keywords = <<>> => ret.value = 0)
           /\ ret.value = SumWholeWord(args.text, args.keywords, 1)


----------------------------------------------------------------------------
(* model_inference.py: load_keywords                                       *)

\* A call either returns a value or raises an exception.
Value(v) == [kind |-> "value", value |-> v]
Raise(e) == [kind |-> "raise", exc |-> e]

encodings == <<"utf-8", "latin1", "iso-8859-1">>

\* pd.read_csv(path, encoding=encoding).  The source behind a path is what
\* reading it gives under each encoding: a DataFrame (its column names and
\* the cells of its `keyword` column, NaN or a str) or an exception.
read_csv(path, encoding) == path[encoding]

\* df['keyword'].dropna().astype(str).str.lower().str.strip().tolist()
NormaliseColumn(cells) ==
    LET kept == SelectSeq(cells, LAMBDA c : ~c.na)
    IN  [i \in DOMAIN kept |-> Strip(Lower(kept[i].s))]

\* the for ... else loop over the encodings: a UnicodeDecodeError moves on
\* to the next encoding, any other exception leaves the loop, a DataFrame
\* breaks out of it, and running out of encodings raises ValueError
RECURSIVE TryEncodings(_, _)
TryEncodings(path, i) ==
    IF i > Len(encodings) THEN Raise("ValueError")
    ELSE LET r == read_csv(path, encodings[i])
         IN  IF r.kind = "raise" /\ r.exc = "UnicodeDecodeError"
             THEN TryEncodings(path, i + 1)
             ELSE r

\* the body of the outer try block
LoadKeywordsBody(path) ==
    LET r == TryEncodings(path, 1)
    IN  IF r.kind = "raise" THEN r
        ELSE LET df == r.value
             IN  IF "keyword" \notin df.columns THEN Raise("ValueError")
                 ELSE LET keywords == NormaliseColumn(df.keyword)
                      IN  IF keywords = <<>> THEN Raise("ValueError")
                          ELSE Value(keywords)

\* a handler that catches ValueError alone
CatchesValueErrorOnly(exc) == exc = "ValueError"

\* `except Exception`: every exception modelled here derives from Exception
ExceptException(exc) ==
    exc \in {"ValueError", "UnicodeDecodeError", "FileNotFoundError",
             "PermissionError", "EmptyDataError", "ParserError"}

load_keywords(path) ==
    LET r == LoadKeywordsBody(path)
    IN  IF r.kind = "raise" /\ ExceptException(r.exc) THEN Value(<<>>) ELSE r

----------------------------------------------------------------------------
(* Inputs of the specification of load_keywords                            *)

MaxRows == 2

NaN == [na |-> TRUE, s |-> <<>>]
Cell(str) == [na |-> FALSE, s |-> str]

CellPool ==
    { NaN, Cell(<<"g">>), Cell(<<" ", "G", " ">>), Cell(<<"B">>), Cell(<<" ">>),
      Cell(<<"n", "o", " ", "G">>) }

DataFrames ==
    { [columns |-> {"keyword", "weight"}, keyword |-> cells] :
        cells \in SeqsUpTo(CellPool, MaxRows) }
    \cup { [columns |-> {"Keyword"}, keyword |-> <<>>],
           [columns |-> {"word", "weight"}, keyword |-> <<>>] }

ReadOutcomes ==
    { Value(df) : df \in DataFrames }
    \cup { Raise(e) : e \in {"UnicodeDecodeError", "FileNotFoundError", "EmptyDataError"} }

\* A source reads the same under every encoding unless utf-8 fails to decode
\* it; latin1 and iso-8859-1 name the same codec, so both read the same.
\* That codec decodes every byte sequence; a UnicodeDecodeError from it is
\* kept as an outcome of the library call so that the loop's else branch runs.
Sources ==
    { [e \in Range(encodings) |-> o] : o \in ReadOutcomes }
    \cup { [e \in Range(encodings) |->
                IF e = "utf-8" THEN Raise("UnicodeDecodeError") ELSE l] :
             l \in ReadOutcomes }

InitLoad ==
    /\ pc = "ready"
    /\ op = "load_keywords"
    /\ args \in [path : Sources]
    /\ ret = NoRet
    /\ POSITIVE_KEYWORDS = <<>>
    /\ NEGATIVE_KEYWORDS = <<>>
    /\ NEUTRAL_KEYWORDS = <<>>
    /\ comments = <<>>
    /\ results = [present |-> FALSE, rows |-> <<>>]

CallLoadKeywords ==
    /\ pc = "ready"
    /\ op = "load_keywords"
    /\ ret' = load_keywords(args.path)
    /\ pc' = "done"
    /\ UNCHANGED <<op, args, POSITIVE_KEYWORDS, NEGATIVE_KEYWORDS,
                   NEUTRAL_KEYWORDS, comments, results>>

SpecLoad == InitLoad /\ [][CallLoadKeywords]_vars


----------------------------------------------------------------------------
(* load_keywords: fail-open policy and the list it returns                 *)

LoadDone == pc = "done" /\ op = "load_keywords"

\* the encodings, by position, under which reading does not fail to decode
Decoded(path) ==
    { i \in DOMAIN encodings :
        ~(path[encodings[i]].kind = "raise"
          /\ path[encodings[i]].exc = "UnicodeDecodeError") }

FirstDecoded(path) == CHOOSE i \in Decoded(path) : \A j \in Decoded(path) : i <= j

\* what the first encoding that decodes gives
FirstRead(path) == path[encodings[FirstDecoded(path)]]

DecodingFails(path) == Decoded(path) = {}

SourceUnreadable(path) == ~DecodingFails(path) /\ FirstRead(path).kind = "raise"

LacksKeywordColumn(path) ==
    /\ ~DecodingFails(path)
    /\ FirstRead(path).kind = "value"
    /\ "keyword" \notin FirstRead(path).value.columns

NoKeywordRows(path) ==
    /\ ~DecodingFails(path)
    /\ FirstRead(path).kind = "value"
    /\ "keyword" \in FirstRead(path).value.columns
    /\ \A i \in DOMAIN FirstRead(path).value.keyword : FirstRead(path).value.keyword[i].na

LoadFails(path) ==
    \/ DecodingFails(path)
    \/ SourceUnreadable(path)
    \/ LacksKeywordColumn(path)
    \/ NoKeywordRows(path)

\* list holds the non-missing cells in their order, lower-cased and trimmed,
\* one entry per cell
IsKeywordsOfColumn(list, cells) ==
    LET present == { i \in DOMAIN cells : ~cells[i].na }
    IN  /\ Len(list) = Cardinality(present)
        /\ \E f \in [DOMAIN list -> present] :
              /\ \A a, b \in DOMAIN list : a < b => f[a] < f[b]
              /\ \A k \in DOMAIN list : list[k] = Strip(Lower(cells[f[k]].s))

\* C8: load_keywords never raises to its caller: on every failure outcome
\* (source missing or unreadable, decoding failing under utf-8, latin1 and
\* iso-8859-1 in turn, no `keyword` column, no keyword rows) it returns the
\* empty list, and otherwise the keyword list read with the first encoding
\* that succeeds.
C8_LoadKeywordsFailsOpen ==
    LoadDone =>
        /\ ret.kind = "value"
        /\ (LoadFails(args.path) => ret.value = <<>>)
        /\ (~LoadFails(args.path) =>
               IsKeywordsOfColumn(ret.value, FirstRead(args.path).value.keyword))

\* a missing source after utf-8 failed to decode: the empty list came back
C8_Witness ==
    /\ LoadDone
    /\ args.path["utf-8"] = Raise("UnicodeDecodeError")
    /\ args.path["latin1"] = Raise("FileNotFoundError")
    /\ ret = Value(<<>>)

\* C10: on a successful load, load_keywords returns the non-missing cells of
\* the `keyword` column in source order, each lower-cased and trimmed, with
\* duplicates kept, and every returned keyword is a non-empty string.
C10_KeywordsNormalisedNonEmpty ==
    (LoadDone /\ ~LoadFails(args.path)) =>
        /\ ret.kind = "value"
        /\ IsKeywordsOfColumn(ret.value, FirstRead(args.path).value.keyword)
        /\ \A k \in DOMAIN ret.value : ret.value[k] # <<>>


----------------------------------------------------------------------------
(* model_inference.py: adjust_sentiment                                    *)

PureNeutral == "Neutral (Pure Neutral)"
DominantlyNegative == "Neutral (Dominantly Negative)"
DominantlyPositive == "Neutral (Dominantly Positive)"

\* `score < 0.9` of the neutral-keyword branch, in ten-thousandths
NEUTRAL_OVERRIDE_THRESHOLD == 9000

\* `score < 0.9` of the two demotion branches, in ten-thousandths
CONF_THRESHOLD == 9000

\* a test for the empty string alone: no strip()
IsEmptyString(text) == text = <<>>

\* `not text.strip()`
IsBlank(text) == Strip(text) = <<>>

\* the override taken on a neutral hit alone, whatever the score
NeutralOverrideAnyScore(neu_hits, score) == neu_hits > 0

\* `neu_hits > 0 and score < 0.9`
NeutralOverride(neu_hits, score) ==
    neu_hits > 0 /\ score < NEUTRAL_OVERRIDE_THRESHOLD

\* the sub-label of the neutral-keyword branch
OverrideSub(pos_hits, neg_hits) ==
    IF pos_hits > neg_hits THEN DominantlyPositive
    ELSE IF neg_hits > pos_hits THEN DominantlyNegative
    ELSE PureNeutral

\* a tie-break without the equality case
NeutralSubNoTie(pos_hits, neg_hits) ==
    IF neg_hits >= pos_hits THEN DominantlyNegative ELSE DominantlyPositive

\* the sub-label of a Neutral raw label
NeutralSub(pos_hits, neg_hits) ==
    IF neg_hits > pos_hits THEN DominantlyNegative
    ELSE IF pos_hits > neg_hits THEN DominantlyPositive
    ELSE PureNeutral

\* the margin compared with > instead of >=
DemotesStrictMargin(score, own_hits, opposing_hits) ==
    score < CONF_THRESHOLD /\ opposing_hits > own_hits + 2

\* the threshold compared with <= instead of <
DemotesAtThreshold(score, own_hits, opposing_hits) ==
    score <= CONF_THRESHOLD /\ opposing_hits >= own_hits + 2

\* `score < 0.9 and neg_hits >= pos_hits + 2` (and its mirror image: the
\* first count is the one of the raw label's own polarity)
Demotes(score, own_hits, opposing_hits) ==
    score < CONF_THRESHOLD /\ opposing_hits >= own_hits + 2

\* returns the tuple <<main_sentiment, sub_sentiment>>
adjust_sentiment(text, sentiment, score) ==
    IF IsBlank(text) THEN <<"Neutral", PureNeutral>>
    ELSE LET text_lower == Lower(text)
             pos_hits == match_keywords(text_lower, POSITIVE_KEYWORDS)
             neg_hits == match_keywords(text_lower, NEGATIVE_KEYWORDS)
             neu_hits == match_keywords(text_lower, NEUTRAL_KEYWORDS)
         IN  IF NeutralOverride(neu_hits, score)
             THEN <<"Neutral", OverrideSub(pos_hits, neg_hits)>>
             ELSE IF sentiment = "Neutral"
                  THEN <<sentiment, NeutralSub(pos_hits, neg_hits)>>
             ELSE IF sentiment = "Positive" /\ Demotes(score, pos_hits, neg_hits)
                  THEN <<sentiment, DominantlyNegative>>
             ELSE IF sentiment = "Negative" /\ Demotes(score, neg_hits, pos_hits)
                  THEN <<sentiment, DominantlyPositive>>
             ELSE <<sentiment, sentiment>>

----------------------------------------------------------------------------
(* model_inference.py: analyze_sentiment                                   *)

\* a mapping with no default: an unlisted label passes through
LabelPassThrough(label) ==
    IF label = "LABEL_0" THEN "Negative"
    ELSE IF label = "LABEL_1" THEN "Neutral"
    ELSE label

\* the mapping of the pipeline's label: LABEL_0, LABEL_1, anything else
LabelToSentiment(label) ==
    IF label = "LABEL_0" THEN "Negative"
    ELSE IF label = "LABEL_1" THEN "Neutral"
    ELSE "Positive"

\* round(score, 3) on ten-thousandths: the nearest multiple of ten (the
\* scores drawn below are no ties)
Round3(score) == ((score + 5) \div 10) * 10

\* classified is the outcome of sentiment_pipeline(text)[0]: a label and a
\* score, or an exception.  It is consulted for non-blank text only.
analyze_sentiment(text, classified) ==
    IF IsBlank(text)
    THEN Value([text |-> text, sentiment_main |-> "Neutral",
                sentiment_sub |-> PureNeutral, score |-> 0])
    ELSE IF classified.kind = "raise" THEN classified
    ELSE LET result == classified.value
             sentiment == LabelToSentiment(result.label)
             adjusted == adjust_sentiment(text, sentiment, result.score)
         IN  Value([text |-> text, sentiment_main |-> adjusted[1],
                    sentiment_sub |-> adjusted[2], score |-> Round3(result.score)])

----------------------------------------------------------------------------
(* Inputs of the specification of adjust_sentiment and analyze_sentiment   *)

MaxTokens == 4

Tokens == { <<"g">>, <<"B">>, <<"n">> }

\* " ".join(tokens)
RECURSIVE Join(_)
Join(tokens) ==
    IF tokens = <<>> THEN <<>>
    ELSE IF Len(tokens) = 1 THEN tokens[1]
    ELSE tokens[1] \o <<" ">> \o Join(Tail(tokens))

BlankTexts == { <<>>, <<" ">>, <<"\t", " ">> }

WordTexts == { Join(ts) : ts \in SeqsUpTo(Tokens, MaxTokens) \ {<<>>} }

RefineTexts == BlankTexts \cup WordTexts

Sentiments == {"Positive", "Negative", "Neutral"}

Labels == {"LABEL_0", "LABEL_1", "LABEL_2"}

Scores == {8000, 8999, 9000, 9500}

\* what the classifier can give for one text
Classified ==
    { Value([label |-> l, score |-> s]) : l \in Labels, s \in Scores }
    \cup { Raise("RuntimeError") }

\* the lists load_keywords can have returned
KeywordConfigs ==
    [ pos : { <<>>, << <<"g">> >> },
      neg : { <<>>, << <<"b">> >>, << <<"b">>, <<"b">> >> },
      neu : { <<>>, << <<"n">> >> } ]

InitRefine ==
    /\ pc = "ready"
    /\ \/ /\ op = "adjust_sentiment"
          /\ args \in [text : RefineTexts, sentiment : Sentiments, score : Scores]
       \/ /\ op = "analyze_sentiment"
          /\ args \in [text : RefineTexts, classified : Classified]
    /\ ret = NoRet
    /\ \E k \in KeywordConfigs :
          /\ POSITIVE_KEYWORDS = k.pos
          /\ NEGATIVE_KEYWORDS = k.neg
          /\ NEUTRAL_KEYWORDS = k.neu
    /\ comments = <<>>
    /\ results = [present |-> FALSE, rows |-> <<>>]

CallAdjustSentiment ==
    /\ pc = "ready"
    /\ op = "adjust_sentiment"
    /\ ret' = Value(adjust_sentiment(args.text, args.sentiment, args.score))
    /\ pc' = "done"
    /\ UNCHANGED <<op, args, POSITIVE_KEYWORDS, NEGATIVE_KEYWORDS,
                   NEUTRAL_KEYWORDS, comments, results>>

CallAnalyzeSentiment ==
    /\ pc = "ready"
    /\ op = "analyze_sentiment"
    /\ ret' = analyze_sentiment(args.text, args.classified)
    /\ pc' = "done"
    /\ UNCHANGED <<op, args, POSITIVE_KEYWORDS, NEGATIVE_KEYWORDS,
                   NEUTRAL_KEYWORDS, comments, results>>

NextRefine == CallAdjustSentiment \/ CallAnalyzeSentiment

SpecRefine == InitRefine /\ [][NextRefine]_vars


----------------------------------------------------------------------------
(* adjust_sentiment and analyze_sentiment: the refinement rules            *)

AdjustDone == pc = "done" /\ op = "adjust_sentiment"
AnalyzeDone == pc = "done" /\ op = "analyze_sentiment"

\* the keyword counts of the text of the call
posHits == match_keywords(Lower(args.text), POSITIVE_KEYWORDS)
negHits == match_keywords(Lower(args.text), NEGATIVE_KEYWORDS)
neuHits == match_keywords(Lower(args.text), NEUTRAL_KEYWORDS)

\* the call refined a non-blank text of this raw label below the threshold
LowConfidence(sentiment) ==
    /\ AdjustDone
    /\ ~IsBlank(args.text)
    /\ args.sentiment = sentiment
    /\ args.score < CONF_THRESHOLD

\* C1 as stated: raw label Positive, confidence below the threshold, non-blank
\* text, every posHits, negHits and neutral-keyword count: the sub-label is
\* demoted to "Neutral (Dominantly Negative)" when negHits >= posHits + 2 and
\* otherwise the result is main = sub = Positive; the mirror image for
\* Negative.
C1_DemotionMarginAnyNeutralCount ==
    /\ LowConfidence("Positive") =>
          IF negHits >= posHits + 2
          THEN ret.value[2] = DominantlyNegative
          ELSE ret.value = <<"Positive", "Positive">>
    /\ LowConfidence("Negative") =>
          IF posHits >= negHits + 2
          THEN ret.value[2] = DominantlyPositive
          ELSE ret.value = <<"Negative", "Negative">>

\* C1 amended: the sub-label is demoted exactly as stated for every
\* neutral-keyword count; below the margin the result stays main = sub = raw
\* label when no neutral keyword matches (neuHits = 0).
C1_DemotionMargin ==
    /\ LowConfidence("Positive") =>
          /\ negHits >= posHits + 2 => ret.value[2] = DominantlyNegative
          /\ (negHits < posHits + 2 /\ neuHits = 0) =>
                ret.value = <<"Positive", "Positive">>
    /\ LowConfidence("Negative") =>
          /\ posHits >= negHits + 2 => ret.value[2] = DominantlyPositive
          /\ (posHits < negHits + 2 /\ neuHits = 0) =>
                ret.value = <<"Negative", "Negative">>

\* Positive at 0.80 with posHits = 1, negHits = 2: one short of the margin
C1_Witness ==
    /\ LowConfidence("Positive")
    /\ args.score = 8000
    /\ posHits = 1 /\ negHits = 2 /\ neuHits = 0
    /\ ret.value = <<"Positive", "Positive">>

\* C2: for empty or whitespace-only text adjust_sentiment returns
\* (Neutral, "Neutral (Pure Neutral)") for every raw label, confidence and
\* keyword lists, and analyze_sentiment returns the same main/sub pair.
C2_BlankTextIsPureNeutral ==
    /\ (AdjustDone /\ Strip(args.text) = <<>>) =>
          ret = Value(<<"Neutral", PureNeutral>>)
    /\ (AnalyzeDone /\ Strip(args.text) = <<>>) =>
          /\ ret.kind = "value"
          /\ ret.value.sentiment_main = "Neutral"
          /\ ret.value.sentiment_sub = PureNeutral

\* whitespace-only text, raw label Positive, non-empty keyword lists
C2_Witness ==
    /\ AdjustDone
    /\ args.text = <<"\t", " ">>
    /\ args.sentiment = "Positive"
    /\ NEGATIVE_KEYWORDS # <<>> /\ NEUTRAL_KEYWORDS # <<>>
    /\ ret = Value(<<"Neutral", PureNeutral>>)

\* C3: for non-blank text and confidence at or above the threshold (0.90,
\* itself included), raw label Positive gives (Positive, Positive) and raw
\* label Negative (Negative, Negative), whatever the three keyword counts.
C3_ConfidentNeverDemoted ==
    (AdjustDone /\ ~IsBlank(args.text) /\ args.score >= 9000
       /\ args.sentiment \in {"Positive", "Negative"})
        => ret.value = <<args.sentiment, args.sentiment>>

\* Positive at exactly 0.90 with negHits well past the margin and a neutral hit
C3_Witness ==
    /\ AdjustDone
    /\ args.sentiment = "Positive"
    /\ args.score = 9000
    /\ negHits >= posHits + 4
    /\ neuHits > 0
    /\ ret.value = <<"Positive", "Positive">>

\* C4: for non-blank text with raw label Neutral, main = Neutral and the
\* sub-label follows the pos/neg tie-break alone, whatever the confidence and
\* the neutral-keyword count: negHits > posHits Dominantly Negative,
\* posHits > negHits Dominantly Positive, equality Pure Neutral.
C4_NeutralTieBreak ==
    (AdjustDone /\ ~IsBlank(args.text) /\ args.sentiment = "Neutral") =>
        /\ ret.value[1] = "Neutral"
        /\ negHits > posHits => ret.value[2] = DominantlyNegative
        /\ posHits > negHits => ret.value[2] = DominantlyPositive
        /\ posHits = negHits => ret.value[2] = PureNeutral

\* Neutral with posHits = 3, negHits = 1
C4_Witness ==
    /\ AdjustDone
    /\ args.sentiment = "Neutral"
    /\ posHits = 3 /\ negHits = 1
    /\ ret.value = <<"Neutral", DominantlyPositive>>

NeutralVariants == {PureNeutral, DominantlyNegative, DominantlyPositive}

\* C9: every result of analyze_sentiment has sentiment_main in {Positive,
\* Negative, Neutral} and sentiment_sub among the five sub-labels; a Neutral
\* main has one of the three neutral variants as sub-label; a sub-label
\* Positive or Negative equals sentiment_main.
C9_ResultTaxonomy ==
    (AnalyzeDone /\ ret.kind = "value") =>
        /\ ret.value.sentiment_main \in {"Positive", "Negative", "Neutral"}
        /\ ret.value.sentiment_sub \in {"Positive", "Negative"} \cup NeutralVariants
        /\ ret.value.sentiment_main = "Neutral" =>
              ret.value.sentiment_sub \in NeutralVariants
        /\ ret.value.sentiment_sub \in {"Positive", "Negative"} =>
              ret.value.sentiment_sub = ret.value.sentiment_main

\* a Negative classification demoted in its sub-label only
C9_Witness ==
    /\ AnalyzeDone
    /\ ret.kind = "value"
    /\ args.classified.kind = "value"
    /\ args.classified.value.label = "LABEL_0"
    /\ ret.value.sentiment_main = "Negative"
    /\ ret.value.sentiment_sub = DominantlyPositive

\* C11: for non-blank text, whenever neuHits > 0 and the confidence is below
\* the override threshold (0.9), adjust_sentiment returns main = Neutral for
\* every raw label, the sub-label following the pos/neg tie-break (posHits >
\* negHits Dominantly Positive, negHits > posHits Dominantly Negative, equality
\* Pure Neutral); when neuHits = 0 or the confidence is not below the
\* threshold, main equals the raw label.
C11_NeutralKeywordOverride ==
    (AdjustDone /\ ~IsBlank(args.text)) =>
        /\ (neuHits > 0 /\ args.score < 9000) =>
              /\ ret.value[1] = "Neutral"
              /\ posHits > negHits => ret.value[2] = DominantlyPositive
              /\ negHits > posHits => ret.value[2] = DominantlyNegative
              /\ posHits = negHits => ret.value[2] = PureNeutral
        /\ (neuHits = 0 \/ args.score >= 9000) => ret.value[1] = args.sentiment

\* Positive just below 0.9 with a neutral hit and posHits > negHits
C11_Witness ==
    /\ AdjustDone
    /\ args.sentiment = "Positive"
    /\ args.score = 8999
    /\ neuHits > 0
    /\ posHits > negHits
    /\ ret.value = <<"Neutral", DominantlyPositive>>



----------------------------------------------------------------------------
(* model_inference.py: analyze_batch                                       *)

\* A comment and a result are Python dicts: functions from field names.

\* an update that keeps the fields the result already has
UpdateKeepExisting(result, comment) ==
    LET passthrough == DOMAIN comment \ {"text"}
    IN  [k \in DOMAIN result \cup passthrough |->
            IF k \in DOMAIN result THEN result[k] ELSE comment[k]]

\* result.update({k: v for k, v in comment.items() if k != "text"})
Update(result, comment) ==
    LET passthrough == DOMAIN comment \ {"text"}
    IN  [k \in DOMAIN result \cup passthrough |->
            IF k \in passthrough THEN comment[k] ELSE result[k]]

\* a result put at the front of the list
PrependResult(acc, result) == <<result>> \o acc

\* results.append(result)
AppendResult(acc, result) == Append(acc, result)

\* a loop that stops at a failing comment and returns the results so far
RECURSIVE PartialLoop(_, _, _, _)
PartialLoop(batch, classified, i, acc) ==
    IF i > Len(batch) THEN Value(acc)
    ELSE LET comment == batch[i]
             analyzed == analyze_sentiment(comment["text"], classified[i])
         IN  IF analyzed.kind = "raise" THEN Value(acc)
             ELSE PartialLoop(batch, classified, i + 1,
                              AppendResult(acc, Update(analyzed.value, comment)))

analyze_batch_partial(batch, classified) == PartialLoop(batch, classified, 1, <<>>)

\* the loop from comment i on, acc being the results so far; classified[i] is
\* what the classifier gives for comment i.  Every comment is a dict with a
\* `text` field.  An exception of analyze_sentiment leaves the function.
RECURSIVE BatchLoop(_, _, _, _)
BatchLoop(batch, classified, i, acc) ==
    IF i > Len(batch) THEN Value(acc)
    ELSE LET comment == batch[i]
             text == comment["text"]
             analyzed == analyze_sentiment(text, classified[i])
         IN  IF analyzed.kind = "raise" THEN analyzed
             ELSE BatchLoop(batch, classified, i + 1,
                            AppendResult(acc, Update(analyzed.value, comment)))

analyze_batch(batch, classified) == BatchLoop(batch, classified, 1, <<>>)

\* the caller's list after the call: the loop reads the list and its dicts
\* and writes to neither
BatchArgumentAfter(batch) == batch

----------------------------------------------------------------------------
(* Inputs of the specification of analyze_batch                            *)

MaxBatch == 2

BatchTexts == { <<" ">>, <<"g">>, <<"B", " ", "B">> }

CommentPool ==
    { [text |-> t, author |-> "Anonymous", date |-> "2024-05-01"] : t \in BatchTexts }
    \cup { [text |-> t, author |-> "asha", region |-> "north"] : t \in BatchTexts }
    \cup { [text |-> t, sentiment_main |-> "Mixed", score |-> 1] : t \in BatchTexts }

BatchClassified ==
    { Value([label |-> "LABEL_2", score |-> 8000]),
      Value([label |-> "LABEL_0", score |-> 9500]),
      Raise("RuntimeError") }

InitBatch ==
    /\ pc = "ready"
    /\ op = "analyze_batch"
    /\ comments \in SeqsUpTo(CommentPool, MaxBatch)
    /\ \E classified \in SeqsUpTo(BatchClassified, MaxBatch) :
          /\ Len(classified) = Len(comments)
          /\ args = [comments |-> comments, classified |-> classified]
    /\ ret = NoRet
    /\ POSITIVE_KEYWORDS = << <<"g">> >>
    /\ NEGATIVE_KEYWORDS = << <<"b">> >>
    /\ NEUTRAL_KEYWORDS = << <<"n">> >>
    /\ results = [present |-> FALSE, rows |-> <<>>]

CallAnalyzeBatch ==
    /\ pc = "ready"
    /\ op = "analyze_batch"
    /\ ret' = analyze_batch(comments, args.classified)
    /\ comments' = BatchArgumentAfter(comments)
    /\ pc' = "done"
    /\ UNCHANGED <<op, args, POSITIVE_KEYWORDS, NEGATIVE_KEYWORDS,
                   NEUTRAL_KEYWORDS, results>>

SpecBatch == InitBatch /\ [][CallAnalyzeBatch]_vars

----------------------------------------------------------------------------
(* app_streamlit.py: the session                                           *)

\* the comments kept in one session
MaxComments == 2

\* str.split("\n")
RECURSIVE SplitLines(_, _)
SplitLines(s, line) ==
    IF s = <<>> THEN <<line>>
    ELSE IF Head(s) = "\n" THEN <<line>> \o SplitLines(Tail(s), <<>>)
    ELSE SplitLines(Tail(s), Append(line, Head(s)))

\* the comments the "Add Comments" loop appends for the lines from i on
RECURSIVE LinesToComments(_, _, _, _)
LinesToComments(lines, i, author, date_input) ==
    IF i > Len(lines) THEN <<>>
    ELSE IF Strip(lines[i]) # <<>>
         THEN <<[text |-> Strip(lines[i]), author |-> author, date |-> date_input]>>
              \o LinesToComments(lines, i + 1, author, date_input)
         ELSE LinesToComments(lines, i + 1, author, date_input)

AppTexts == { <<" ">>, <<"g">> }

AppMultiTexts == { <<"\n">>, <<"g", "\n", " ", "\n", "g">>, <<" ", "g", " ">> }

AppAuthor == "Anonymous"
AppDate == "2024-05-01"

\* df.to_dict("records") of load_comments: text stripped (it can be empty),
\* author and date filled in
UploadedRecords ==
    { <<[text |-> t, author |-> AppAuthor, date |-> AppDate]>> : t \in { <<>>, <<"g">> } }

AppClassified ==
    { Value([label |-> "LABEL_2", score |-> 8000]),
      Raise("RuntimeError") }

Init ==
    /\ pc = "ready"
    /\ op = "session"
    /\ args = [classified |-> <<>>]
    /\ ret = NoRet
    /\ POSITIVE_KEYWORDS = << <<"g">> >>
    /\ NEGATIVE_KEYWORDS = << <<"b">> >>
    /\ NEUTRAL_KEYWORDS = << <<"n">> >>
    /\ comments = <<>>
    /\ results = [present |-> FALSE, rows |-> <<>>]

Handled(outcome) ==
    /\ ret' = outcome
    /\ UNCHANGED <<pc, op, POSITIVE_KEYWORDS, NEGATIVE_KEYWORDS, NEUTRAL_KEYWORDS>>

\* "Add Comment": a blank text is refused, any other is stored as typed
AddComment ==
    \E text \in AppTexts :
        /\ Len(comments) < MaxComments
        /\ IF Strip(text) # <<>>
           THEN comments' = Append(comments,
                                   [text |-> text, author |-> AppAuthor, date |-> AppDate])
           ELSE UNCHANGED comments
        /\ UNCHANGED <<results, args>>
        /\ Handled(Value("rerun"))

\* "Add Comments": one comment per non-blank line, stripped
AddComments ==
    \E texts \in AppMultiTexts :
        LET added == IF Strip(texts) # <<>>
                     THEN LinesToComments(SplitLines(texts, <<>>), 1, AppAuthor, AppDate)
                     ELSE <<>>
        IN  /\ Len(comments) + Len(added) <= MaxComments
            /\ comments' = comments \o added
            /\ UNCHANGED <<results, args>>
            /\ Handled(Value("rerun"))

\* "Upload File": the records of load_comments are appended; a file that
\* cannot be loaded changes nothing
UploadFile ==
    \E loaded \in { Value(r) : r \in UploadedRecords } \cup { Raise("ValueError") } :
        /\ IF loaded.kind = "value"
           THEN /\ Len(comments) + Len(loaded.value) <= MaxComments
                /\ comments' = comments \o loaded.value
           ELSE UNCHANGED comments
        /\ UNCHANGED <<results, args>>
        /\ Handled(Value("rerun"))

\* "Clear All Comments"
ClearAllComments ==
    /\ comments' = <<>>
    /\ UNCHANGED <<results, args>>
    /\ Handled(Value("rerun"))

\* "Analyze All Comments": shown when there are comments; an exception of
\* analyze_batch ends the run before the assignment
AnalyzeAllComments ==
    /\ comments # <<>>
    /\ \E classified \in SeqsUpTo(AppClassified, MaxComments) :
          /\ Len(classified) = Len(comments)
          /\ LET outcome == analyze_batch(comments, classified)
             IN  /\ args' = [classified |-> classified]
                 /\ IF outcome.kind = "value"
                    THEN /\ results' = [present |-> TRUE, rows |-> outcome.value]
                         /\ Handled(Value("rerun"))
                    ELSE /\ UNCHANGED results
                         /\ Handled(outcome)
    /\ comments' = BatchArgumentAfter(comments)

Next ==
    \/ AddComment
    \/ AddComments
    \/ UploadFile
    \/ ClearAllComments
    \/ AnalyzeAllComments

Spec == Init /\ [][Next]_vars


----------------------------------------------------------------------------
(* analyze_batch: order and pass-through fields                            *)

BatchDone == pc = "done" /\ op = "analyze_batch"

\* the classifier failed on a comment it was asked about
ClassifierFails ==
    \E i \in DOMAIN args.comments :
        ~IsBlank(args.comments[i].text) /\ args.classified[i].kind = "raise"

\* the refinement of the text of comment i
Refinement(i) == analyze_sentiment(args.comments[i].text, args.classified[i]).value

\* C5 as stated: when the classifier does not fail, analyze_batch returns
\* exactly N results and for every index i output[i].text is input[i].text
\* and output[i]'s sentiment fields are the refinement of input[i]'s text.
C5_BatchOrderAnyComment ==
    (BatchDone /\ ~ClassifierFails) =>
        /\ ret.kind = "value"
        /\ Len(ret.value) = Len(args.comments)
        /\ \A i \in DOMAIN args.comments :
              /\ ret.value[i].text = args.comments[i].text
              /\ ret.value[i].sentiment_main = Refinement(i).sentiment_main
              /\ ret.value[i].sentiment_sub = Refinement(i).sentiment_sub

\* C5 amended: the same, the sentiment fields being the refinement of
\* input[i]'s text except for a field the comment itself carries under that
\* name.
C5_BatchOrder ==
    (BatchDone /\ ~ClassifierFails) =>
        /\ ret.kind = "value"
        /\ Len(ret.value) = Len(args.comments)
        /\ \A i \in DOMAIN args.comments :
              /\ ret.value[i].text = args.comments[i].text
              /\ \A f \in {"sentiment_main", "sentiment_sub"} \ DOMAIN args.comments[i] :
                    ret.value[i][f] = Refinement(i)[f]

\* two comments of different text and different refinement, a blank one first
C5_Witness ==
    /\ BatchDone
    /\ ret.kind = "value"
    /\ Len(args.comments) = 2
    /\ IsBlank(args.comments[1].text)
    /\ ~IsBlank(args.comments[2].text)
    /\ ret.value[1].sentiment_sub = PureNeutral
    /\ ret.value[2].sentiment_sub = DominantlyNegative

\* C6: every field of the comment other than `text` is in the result with
\* the comment's value, also when the refinement has a field of that name;
\* the result's `text` is not overwritten; the input comments are unmodified.
C6_PassthroughMerge ==
    (BatchDone /\ ret.kind = "value") =>
        /\ comments = args.comments
        /\ \A i \in DOMAIN args.comments :
              /\ ret.value[i].text = args.comments[i].text
              /\ \A k \in DOMAIN args.comments[i] \ {"text"} :
                    /\ k \in DOMAIN ret.value[i]
                    /\ ret.value[i][k] = args.comments[i][k]

\* a comment with region = "north" and one whose sentiment_main collides
C6_Witness ==
    /\ BatchDone
    /\ ret.kind = "value"
    /\ \E i \in DOMAIN args.comments :
          /\ "region" \in DOMAIN args.comments[i]
          /\ ret.value[i].region = "north"
    /\ \E i \in DOMAIN args.comments :
          /\ ~IsBlank(args.comments[i].text)
          /\ "sentiment_main" \in DOMAIN args.comments[i]
          /\ ret.value[i].sentiment_main = "Mixed"
          /\ Refinement(i).sentiment_main # "Mixed"


----------------------------------------------------------------------------
(* The session: a classifier failure during "Analyze All Comments"         *)

\* the classifier fails on a comment of the session it is asked about
SessionClassifierFails(classified) ==
    \E i \in DOMAIN comments :
        ~IsBlank(comments[i].text) /\ classified[i].kind = "raise"

\* C12: if the classifier fails on a comment of the batch, analyze_batch
\* propagates the failure and returns no result list, and the session's
\* stored results stay as they were before the Analyze action; a failure that
\* could only come from blank-text comments does not occur, because the
\* classifier is not invoked for them: the batch is analyzed in full.
C12_ClassifierFailureIsFatal ==
    [][AnalyzeAllComments =>
          IF SessionClassifierFails(args'.classified)
          THEN /\ ret'.kind = "raise"
               /\ results' = results
          ELSE /\ ret'.kind = "value"
               /\ results'.present
               /\ Len(results'.rows) = Len(comments)]_vars

\* the classifier failed on the second of two comments after the first had
\* been classified, and results of an earlier analysis are still stored
C12_Witness ==
    /\ op = "session"
    /\ ret.kind = "raise"
    /\ Len(comments) = 2
    /\ ~IsBlank(comments[1].text)
    /\ ~IsBlank(comments[2].text)
    /\ Len(args.classified) = 2
    /\ args.classified[1].kind = "value"
    /\ args.classified[2].kind = "raise"
    /\ results.present
    /\ Len(results.rows) = 1


====
